---- MODULE Spec2Model ----
(***************************************************************************)
(* Timing and segmentation pipeline of the fact-video generator:           *)
(*   src/src/visual_processing.py  (text segmenter, duration estimator,    *)
(*                                  prepare_sentence_data)                 *)
(*   src/src/audio_processing.py   (analyze_voiceover_timing)              *)
(*   src/src/video_assembly.py     (assemble_multi_background_video)       *)
(*                                                                         *)
(* A text is a sequence of one-character strings, so that str.split() and  *)
(* " ".join() are modelled by what they do to characters.  Times are exact *)
(* rationals [num, den] in seconds (Python computes them in binary         *)
(* floating point; where that changes a result it is said at the place).   *)
(***************************************************************************)
EXTENDS Integers, Sequences, FiniteSets, TLC

VARIABLES
    text,               \* the narration text handed to the operation
    pc,                 \* which operation has run: "idle" before any
    non_silent_ranges,  \* analyze_voiceover_timing: detected ranges, seconds
    total_duration,     \* analyze_voiceover_timing: audio.duration_seconds
    branch,             \* "none" | "fallback" | "mapped"
    chunks,             \* the chunk list the last operation built
    chunk_timings,      \* mapped strategy: one (start, end) per chunk
    audio_indices,      \* mapped strategy: index of the range given to chunk i
    segments,           \* analyze_voiceover_timing's return value
    max_words,          \* max_words_per_chunk of the last chunk split
    words_per_second,   \* config["words_per_second"] used by the estimate
    sentences,          \* prepare_sentence_data: result of the sentence split
    estimates,          \* prepare_sentence_data: duration of each sentence
    sentence_data,      \* prepare_sentence_data's return value
    loop_index,         \* assemble_multi_background_video: segments processed
    current_start,      \* assemble_multi_background_video: running start time
    segment_text_clips, \* assemble_multi_background_video: caption clips
    background_segments,\* assemble_multi_background_video: background clips
    temp_dir,           \* "none" | "exists" | "removed"
    segment_error,      \* what the inner try of the last iteration met
    final_duration,     \* final_clip.duration, NoValue until assembled
    estimate_word_count,\* estimate_sentence_duration: word_count
    query_keywords,     \* the keyword list handed to the Background Resolver
    local_files,        \* the file names in config["backgrounds_dir"]
    download,           \* download_background_clip: its sources, requests, outcome
    created_temp_dir,   \* the directory download_background_clip made itself
    fact_response,      \* get_fact: what the request to api_url met
    fact_options,       \* get_fact: the AI expansion settings of its config
    fact_result,        \* get_fact: what it returned or raised
    config,             \* main: the keys present in the configuration
    run_error,          \* main: the exception that ended the run, if any
    audio_duration,     \* main: the narration audio's duration, seconds
    text_clip           \* main: the caption clip create_text_clip returned

timelineVars == << text, pc, non_silent_ranges, total_duration, branch, chunks,
           chunk_timings, audio_indices, segments, max_words,
           words_per_second, sentences, estimates, sentence_data, loop_index, current_start,
           segment_text_clips, background_segments, temp_dir, segment_error,
           final_duration >>

\* the state of the operations outside the timing pipeline
estimatorVars == << estimate_word_count >>
resolverVars == << query_keywords, local_files, download, created_temp_dir >>
factVars == << fact_response, fact_options, fact_result >>
mainVars == << config, run_error, audio_duration, text_clip >>

stageVars == << estimatorVars, resolverVars, factVars, mainVars >>

vars == << timelineVars, stageVars >>

NoValue == [none |-> TRUE]

\* before any of the operations outside the timing pipeline has run
EstimatorIdle == estimate_word_count = NoValue

ResolverIdle ==
    /\ query_keywords = << >>
    /\ local_files = {}
    /\ download = NoValue
    /\ created_temp_dir = "none"

FactIdle ==
    /\ fact_response = NoValue
    /\ fact_options = NoValue
    /\ fact_result = NoValue

MainIdle ==
    /\ config = {}
    /\ run_error = NoValue
    /\ audio_duration = NoValue
    /\ text_clip = NoValue

StageVarsIdle ==
    /\ EstimatorIdle
    /\ ResolverIdle
    /\ FactIdle
    /\ MainIdle

----------------------------------------------------------------------------
(* Bounds of the model *)

\* longest text enumerated character by character
MaxChars == 5
\* longest text enumerated word by word
MaxWords == 7
\* longest audio, in ticks of min_silence_len
MaxTicks == 6
\* longest text (in words) the timeline path enumerates
MaxTimelineWords == 4
\* longest sentence, in characters, handed to the duration estimator alone
MaxSentenceChars == 5
\* longest configured list of video sources
MaxSources == 2
\* longest keyword list handed to the Background Resolver
MaxKeywords == 4
\* most members of a JSON object the fact API answers with
MaxObjectKeys == 2
\* a configuration has at most this many options, or lacks at most this many
MaxConfigKeys == 1
\* longest text (in words), beside the example, that is assembled and rendered
MaxRenderWords == 2
\* largest max_words_per_chunk tried
MaxChunkSize == 5

(* Program constants *)

\* keywords[:3]
QueryKeywords == 3
\* len(fallback_facts)
NumFallbackFacts == 5
\* main: video_duration = 60
MainVideoDuration == 60
\* config.get("video_duration", 30)
DefaultVideoDuration == 30

\* min_silence_len default, milliseconds: detected ranges are at least this
\* far apart, so range bounds are enumerated on this grid
Tick == 100
\* default max_words_per_chunk of split_text_into_word_chunks
DefaultMaxWordsPerChunk == 5
\* chunk size written into the mapped strategy's loop
MappedChunkWords == 5
\* milliseconds per second
MsPerSecond == 1000
\* the least duration estimate_sentence_duration returns, seconds
MinDuration == 2
\* default num_keywords of extract_sentence_keywords
NumKeywords == 3

----------------------------------------------------------------------------
(* Exact rational arithmetic *)

Abs(x) == IF x < 0 THEN -x ELSE x

RECURSIVE GCD(_, _)
GCD(a, b) == IF b = 0 THEN a ELSE GCD(b, a % b)

\* n/d in lowest terms with a positive denominator (d # 0)
Rat(n, d) ==
    LET s == IF d < 0 THEN -1 ELSE 1
        g == GCD(Abs(n), Abs(d))
    IN  [num |-> (s * n) \div g, den |-> (s * d) \div g]

RatInt(n)     == [num |-> n, den |-> 1]
RatAdd(a, b)  == Rat(a.num * b.den + b.num * a.den, a.den * b.den)
RatSub(a, b)  == Rat(a.num * b.den - b.num * a.den, a.den * b.den)
RatMul(a, b)  == Rat(a.num * b.num, a.den * b.den)
RatDiv(a, b)  == Rat(a.num * b.den, a.den * b.num)
RatLt(a, b)   == a.num * b.den < b.num * a.den
RatLe(a, b)   == a.num * b.den <= b.num * a.den
RatMax(a, b)  == IF RatLt(a, b) THEN b ELSE a
RatAbs(a)     == [num |-> Abs(a.num), den |-> a.den]
\* int(x) for x >= 0
RatFloor(a)   == a.num \div a.den

RECURSIVE RatSum(_)
RatSum(s) == IF s = << >> THEN RatInt(0) ELSE RatAdd(s[1], RatSum(Tail(s)))

Min(a, b) == IF a < b THEN a ELSE b

RECURSIVE Flatten(_)
Flatten(ss) == IF ss = << >> THEN << >> ELSE ss[1] \o Flatten(Tail(ss))

SeqsUpTo(S, n) == UNION { [1..k -> S] : k \in 0..n }

----------------------------------------------------------------------------
(* Python string operations *)

\* characters str.split() treats as separators
Whitespace == {" ", "\n", "\t"}
\* the tuple given to word.endswith in the mapped strategy
Terminal == {".", "!", "?"}

\* str.split(): maximal runs of non-whitespace characters, in order
RECURSIVE SplitLoop(_, _, _, _)
SplitLoop(s, i, cur, acc) ==
    IF i > Len(s)
    THEN IF cur = << >> THEN acc ELSE Append(acc, cur)
    ELSE IF s[i] \in Whitespace
         THEN SplitLoop(s, i + 1, << >>,
                        IF cur = << >> THEN acc ELSE Append(acc, cur))
         ELSE SplitLoop(s, i + 1, Append(cur, s[i]), acc)

Split(s) == SplitLoop(s, 1, << >>, << >>)

\* " ".join(ws)
RECURSIVE Join(_)
Join(ws) ==
    IF ws = << >> THEN << >>
    ELSE IF Len(ws) = 1 THEN ws[1]
    ELSE ws[1] \o << " " >> \o Join(Tail(ws))

\* word.endswith(('.', '!', '?'))
EndsWithTerminal(word) == word # << >> /\ word[Len(word)] \in Terminal

----------------------------------------------------------------------------
(* Text Segmenter: visual_processing.split_text_into_word_chunks *)

\* number of values of range(0, n, step)
RangeCount(n, step) == (n + step - 1) \div step

\* a mutant: the last, partial chunk is not produced
split_dropping_remainder(t, max_words_per_chunk) ==
    LET words == Split(t)
    IN  [k \in 1..(Len(words) \div max_words_per_chunk) |->
            Join(SubSeq(words, (k - 1) * max_words_per_chunk + 1,
                        k * max_words_per_chunk))]

\* a mutant: consecutive chunks overlap by one word (slice end off by one)
split_overlapping(t, max_words_per_chunk) ==
    LET words == Split(t)
    IN  [k \in 1..RangeCount(Len(words), max_words_per_chunk) |->
            Join(SubSeq(words, (k - 1) * max_words_per_chunk + 1,
                        Min(k * max_words_per_chunk + 1, Len(words))))]

\* a mutant: the text itself is sliced, not its word list
split_slicing_characters(t, max_words_per_chunk) ==
    [k \in 1..RangeCount(Len(t), max_words_per_chunk) |->
        SubSeq(t, (k - 1) * max_words_per_chunk + 1,
               Min(k * max_words_per_chunk, Len(t)))]

\* for i in range(0, len(words), max): chunks.append(" ".join(words[i:i+max]))
split_text_into_word_chunks(t, max_words_per_chunk) ==
    LET words == Split(t)
    IN  [k \in 1..RangeCount(Len(words), max_words_per_chunk) |->
            Join(SubSeq(words, (k - 1) * max_words_per_chunk + 1,
                        Min(k * max_words_per_chunk, Len(words))))]

----------------------------------------------------------------------------
(* Audio Timing Aligner: audio_processing.analyze_voiceover_timing *)

\* the loop of the mapped strategy with its chunk size n: a chunk is closed
\* at n words or at a word ending in . ! ?, the rest is flushed at the end
RECURSIVE ChunkLoop(_, _, _, _, _, _)
ChunkLoop(words, n, i, current_chunk, word_count, acc) ==
    IF i > Len(words)
    THEN IF current_chunk # << >> THEN Append(acc, Join(current_chunk)) ELSE acc
    ELSE LET cur == Append(current_chunk, words[i])
             cnt == word_count + 1
         IN  IF cnt = n \/ EndsWithTerminal(words[i])
             THEN ChunkLoop(words, n, i + 1, << >>, 0, Append(acc, Join(cur)))
             ELSE ChunkLoop(words, n, i + 1, cur, cnt, acc)

PunctuationChunks(words, n) == ChunkLoop(words, n, 1, << >>, 0, << >>)

\* the chunks of the mapped strategy
MappedChunks(words) == PunctuationChunks(words, MappedChunkWords)

\* a mutant: the boundary is counted as sparse (<= for <)
SparseEvidenceInclusive(range_count, word_count) ==
    RatLe(RatInt(range_count), Rat(word_count, 2))

\* a mutant: an audio without any detected range always takes the fallback
SparseEvidenceNoSpeech(range_count, word_count) ==
    range_count = 0 \/ RatLt(RatInt(range_count), Rat(word_count, 2))

\* len(non_silent_ranges) < len(words) / 2, a true (float) division
SparseEvidence(range_count, word_count) ==
    RatLt(RatInt(range_count), Rat(word_count, 2))

\* Python evaluates ratio = chunk_count / audio_segment_count and i / ratio in
\* double precision.  When i * audio_segment_count is a multiple of
\* chunk_count the exact quotient is an integer k and the double quotient can
\* be just below it, so that int() yields k - 1.  For chunk_count <= 26 this
\* happens for exactly one (chunk_count, audio_segment_count, i).
QuotientRoundsBelow(i, chunk_count, audio_segment_count) ==
    << chunk_count, audio_segment_count, i >> \in { << 18, 14, 9 >> }

\* a mutant: the ratio applied the other way round (i * ratio)
AudioIdxTimesRatio(i, chunk_count, audio_segment_count) ==
    Min((i * chunk_count) \div audio_segment_count, audio_segment_count - 1)

\* a mutant: max for min in the clamp
AudioIdxMaxClamp(i, chunk_count, audio_segment_count) ==
    LET q == (i * audio_segment_count) \div chunk_count
    IN  IF q > audio_segment_count - 1 THEN q ELSE audio_segment_count - 1

\* audio_idx = min(int(i / ratio), audio_segment_count - 1), i from 0
AudioIdx(i, chunk_count, audio_segment_count) ==
    LET ratio == Rat(chunk_count, audio_segment_count)
        q     == RatFloor(RatDiv(RatInt(i), ratio))
        audio_idx == IF QuotientRoundsBelow(i, chunk_count, audio_segment_count)
                     THEN q - 1 ELSE q
    IN  Min(audio_idx, audio_segment_count - 1)

\* a mutant: the 1:1 mapping starts at the second range
DirectIdxShifted(i, chunk_count, audio_segment_count) ==
    Min(i + 1, audio_segment_count - 1)

\* chunk_timings.append(non_silent_ranges[i]), i from 0
DirectIdx(i, chunk_count, audio_segment_count) == i

\* the (0-based) index of the range given to each chunk, as a sequence
MapChunksToRanges(chunk_count, audio_segment_count) ==
    IF chunk_count <= audio_segment_count
    THEN [k \in 1..chunk_count |-> DirectIdx(k - 1, chunk_count, audio_segment_count)]
    ELSE [k \in 1..chunk_count |-> AudioIdx(k - 1, chunk_count, audio_segment_count)]

\* a mutant: slices are cut for one chunk more than there are
FallbackSegmentsExtraSlot(cs, duration) ==
    LET segment_duration == RatDiv(duration, RatInt(Len(cs) + 1))
    IN  [k \in 1..Len(cs) |->
            [text     |-> cs[k],
             start    |-> RatMul(RatInt(k - 1), segment_duration),
             end      |-> RatMul(RatInt(k), segment_duration),
             duration |-> segment_duration]]

\* segment_duration = total_duration / len(chunks); chunk i (from 0) gets
\* [i * segment_duration, (i + 1) * segment_duration]
FallbackSegments(cs, duration) ==
    LET segment_duration == RatDiv(duration, RatInt(Len(cs)))
    IN  [k \in 1..Len(cs) |->
            [text     |-> cs[k],
             start    |-> RatMul(RatInt(k - 1), segment_duration),
             end      |-> RatMul(RatInt(k), segment_duration),
             duration |-> segment_duration]]

\* a mutant: the segments are built in reverse chunk order
MappedSegmentsReversed(cs, timings) ==
    [k \in 1..Len(cs) |->
        [text     |-> cs[Len(cs) + 1 - k],
         start    |-> timings[k][1],
         end      |-> timings[k][2],
         duration |-> RatSub(timings[k][2], timings[k][1])]]

\* for i, chunk in enumerate(chunks): start_time, end_time = chunk_timings[i]
MappedSegments(cs, timings) ==
    [k \in 1..Len(cs) |->
        [text     |-> cs[k],
         start    |-> timings[k][1],
         end      |-> timings[k][2],
         duration |-> RatSub(timings[k][2], timings[k][1])]]

----------------------------------------------------------------------------
(* Inputs *)

Alphabet   == {"a", ".", " "}
Vocabulary == { << "a" >>, << "a", "." >> }

\* n copies of the word w, joined by single spaces
Repeated(w, n) == Join([k \in 1..n |-> w])

\* 20 words without punctuation, and 18 one-word sentences
TwentyWords       == Repeated(<< "a" >>, 20)
EighteenSentences == Repeated(<< "a", "." >>, 18)

Texts ==
    SeqsUpTo(Alphabet, MaxChars)
    \cup { Join(ws) : ws \in SeqsUpTo(Vocabulary, MaxWords) }
    \cup { TwentyWords, EighteenSentences }

RECURSIVE SortedSeq(_)
SortedSeq(S) ==
    IF S = {} THEN << >>
    ELSE LET m == CHOOSE x \in S : \A y \in S : x <= y
         IN  << m >> \o SortedSeq(S \ {m})

\* what detect_nonsilence can return for an audio of the given length:
\* ascending, disjoint [start, end] ranges in milliseconds, separated by
\* silences of at least min_silence_len; none when all is silence
DetectNonsilence(audio_ms) ==
    LET points == { k * Tick : k \in 0..(audio_ms \div Tick) }
    IN  { [k \in 1..(Cardinality(S) \div 2) |->
              << SortedSeq(S)[2 * k - 1], SortedSeq(S)[2 * k] >>] :
          S \in { T \in SUBSET points : Cardinality(T) % 2 = 0 } }

\* an audio of 14 spoken ranges
LongAudio ==
    [ms |-> 28 * Tick,
     ranges |-> [k \in 1..14 |-> << 2 * (k - 1) * Tick, (2 * k - 1) * Tick >>]]

AudioInputs ==
    UNION { { [ms |-> k * Tick, ranges |-> r] : r \in DetectNonsilence(k * Tick) } :
            k \in 1..MaxTicks }
    \cup { LongAudio }

\* the values of max_words_per_chunk that are tried
ChunkSizes == 1..MaxChunkSize

----------------------------------------------------------------------------
(* State machine *)

Init ==
    /\ text \in Texts
    /\ pc = "idle"
    /\ non_silent_ranges = << >>
    /\ total_duration = NoValue
    /\ branch = "none"
    /\ chunks = << >>
    /\ chunk_timings = << >>
    /\ audio_indices = << >>
    /\ segments = << >>
    /\ max_words = 0
    /\ words_per_second = NoValue
    /\ sentences = << >>
    /\ estimates = << >>
    /\ sentence_data = << >>
    /\ loop_index = 0
    /\ current_start = RatInt(0)
    /\ segment_text_clips = << >>
    /\ background_segments = << >>
    /\ temp_dir = "none"
    /\ segment_error = "none"
    /\ final_duration = NoValue
    /\ StageVarsIdle

\* non_silent_ranges = [(start/1000, end/1000) for start, end in ...]
ToSeconds(ranges_ms) ==
    [k \in 1..Len(ranges_ms) |->
        << Rat(ranges_ms[k][1], MsPerSecond), Rat(ranges_ms[k][2], MsPerSecond) >>]

\* analyze_voiceover_timing(voiceover_path, text): the audio file's length
\* and the ranges detect_nonsilence finds in it are the inputs read from
\* the file.  audio.duration_seconds is taken at millisecond resolution.
AnalyzeVoiceoverTiming ==
    /\ pc = "idle"
    /\ \E audio \in AudioInputs :
         LET ranges   == ToSeconds(audio.ranges)
             duration == Rat(audio.ms, MsPerSecond)
             words    == Split(text)
         IN  /\ non_silent_ranges' = ranges
             /\ total_duration' = duration
             /\ IF SparseEvidence(Len(ranges), Len(words))
                THEN LET cs == split_text_into_word_chunks(text, DefaultMaxWordsPerChunk)
                     IN  /\ branch' = "fallback"
                         /\ chunks' = cs
                         /\ chunk_timings' = << >>
                         /\ audio_indices' = << >>
                         /\ segments' = FallbackSegments(cs, duration)
                ELSE LET cs  == MappedChunks(words)
                         idx == MapChunksToRanges(Len(cs), Len(ranges))
                         timings == [k \in 1..Len(cs) |-> ranges[idx[k] + 1]]
                     IN  /\ branch' = "mapped"
                         /\ chunks' = cs
                         /\ chunk_timings' = timings
                         /\ audio_indices' = idx
                         /\ segments' = MappedSegments(cs, timings)
    /\ pc' = "analyzed"
    /\ UNCHANGED stageVars
    /\ UNCHANGED segment_error
    /\ UNCHANGED << text, max_words, words_per_second, sentences, estimates,
                    sentence_data,
                    loop_index, current_start, segment_text_clips,
                    background_segments, temp_dir, final_duration >>

\* split_text_into_word_chunks(text, max_words_per_chunk)
SplitTextIntoWordChunks ==
    /\ pc = "idle"
    /\ \E m \in ChunkSizes :
         /\ max_words' = m
         /\ chunks' = split_text_into_word_chunks(text, m)
    /\ pc' = "split"
    /\ UNCHANGED stageVars
    /\ UNCHANGED segment_error
    /\ UNCHANGED << text, non_silent_ranges, total_duration, branch,
                    chunk_timings, audio_indices, segments,
                    words_per_second, sentences, estimates, sentence_data, loop_index, current_start,
                    segment_text_clips, background_segments, temp_dir,
                    final_duration >>

Next ==
    \/ AnalyzeVoiceoverTiming
    \/ SplitTextIntoWordChunks

Spec == Init /\ [][Next]_vars

----------------------------------------------------------------------------
(* Duration Estimator and keyword extractor: visual_processing.py *)

\* characters of the model's texts that \w does not match and \s does not
Punctuation == Terminal \cup {",", "'", "-"}

\* \w
IsWordChar(c) == c \notin Whitespace \cup Punctuation

\* len(re.findall(r'\w+', s)): the number of maximal runs of word characters
RECURSIVE CountWordRuns(_, _, _)
CountWordRuns(s, i, in_run) ==
    IF i > Len(s) THEN 0
    ELSE IF IsWordChar(s[i])
         THEN (IF in_run THEN 0 ELSE 1) + CountWordRuns(s, i + 1, TRUE)
         ELSE CountWordRuns(s, i + 1, FALSE)

\* a mutant: the minimum duration is not applied
estimate_without_minimum(sentence, wps) ==
    RatDiv(RatInt(CountWordRuns(sentence, 1, FALSE)), wps)

\* duration = max(word_count / words_per_second, 2.0)
estimate_sentence_duration(sentence, wps) ==
    RatMax(RatDiv(RatInt(CountWordRuns(sentence, 1, FALSE)), wps),
           RatInt(MinDuration))

\* str.lower() on the letters of the model's texts
Lower(c) == CASE c = "A" -> "a" [] c = "H" -> "h" [] OTHER -> c

\* re.sub(r'[^\w\s]', '', sentence.lower())
CleanSentence(sentence) ==
    LET lowered == [k \in 1..Len(sentence) |-> Lower(sentence[k])]
    IN  SelectSeq(lowered, LAMBDA c : c \notin Punctuation)

\* the stop words that occur in the model's texts
StopWords == { << "a" >>, << "w", "e", "r", "e" >>, << "t", "h", "e" >> }

\* the keys of word_freq in insertion order: each word at its first place
RECURSIVE FirstOccurrences(_, _)
FirstOccurrences(ws, seen) ==
    IF ws = << >> THEN << >>
    ELSE IF ws[1] \in seen THEN FirstOccurrences(Tail(ws), seen)
    ELSE << ws[1] >> \o FirstOccurrences(Tail(ws), seen \cup {ws[1]})

Occurrences(ws, w) == Cardinality({ k \in 1..Len(ws) : ws[k] = w })

\* sorted(items, key=frequency, reverse=True): stable, so equally frequent
\* words keep their insertion order
RECURSIVE SortByFrequency(_, _)
SortByFrequency(keys, ws) ==
    IF keys = << >> THEN << >>
    ELSE LET best == CHOOSE k \in 1..Len(keys) :
                       /\ \A j \in 1..Len(keys) :
                            Occurrences(ws, keys[j]) <= Occurrences(ws, keys[k])
                       /\ \A j \in 1..(k - 1) :
                            Occurrences(ws, keys[j]) < Occurrences(ws, keys[k])
         IN  << keys[best] >> \o
             SortByFrequency(SubSeq(keys, 1, best - 1) \o
                             SubSeq(keys, best + 1, Len(keys)), ws)

DefaultKeyword == << "n", "a", "t", "u", "r", "e" >>

\* extract_sentence_keywords(sentence), num_keywords = 3
extract_sentence_keywords(sentence) ==
    LET words    == Split(CleanSentence(sentence))
        filtered == SelectSeq(words, LAMBDA w : w \notin StopWords /\ Len(w) > 2)
        sorted   == SortByFrequency(FirstOccurrences(filtered, {}), filtered)
        keywords == SubSeq(sorted, 1, Min(NumKeywords, Len(sorted)))
    IN  IF keywords # << >> THEN keywords ELSE << DefaultKeyword >>

----------------------------------------------------------------------------
(* Timeline Builder, estimate-only path: visual_processing.prepare_sentence_data
   and the loop of video_assembly.assemble_multi_background_video *)

\* what nltk.sent_tokenize can return: the words of the text in order, cut
\* into sentences after some of the words that end in . ! ? (the tokenizer
\* decides which of them end a sentence); no sentence is empty
SentTokenize(t) ==
    LET words == Split(t)
        n     == Len(words)
        stops == { k \in 1..(n - 1) : EndsWithTerminal(words[k]) }
    IN  IF n = 0 THEN { << >> }
        ELSE { LET cuts == SortedSeq(B \cup {n})
               IN  [k \in 1..Len(cuts) |->
                       Join(SubSeq(words,
                                   IF k = 1 THEN 1 ELSE cuts[k - 1] + 1,
                                   cuts[k]))] :
               B \in SUBSET stops }

\* a mutant: every chunk is given the whole sentence's duration
chunk_duration_undivided(duration, chunk_count) == duration

\* chunk_duration = duration / len(chunks) if chunks else duration
chunk_duration(duration, chunk_count) ==
    IF chunk_count > 0 THEN RatDiv(duration, RatInt(chunk_count)) ELSE duration

\* the entries prepare_sentence_data appends for one sentence
SentenceEntries(sentence, wps, max_words_per_segment) ==
    LET keywords == extract_sentence_keywords(sentence)
        duration == estimate_sentence_duration(sentence, wps)
        cs       == split_text_into_word_chunks(sentence, max_words_per_segment)
    IN  [k \in 1..Len(cs) |->
            [text     |-> cs[k],
             keywords |-> keywords,
             duration |-> chunk_duration(duration, Len(cs))]]

\* a mutant: the running start is not advanced
next_start_stuck(start, duration) == start

\* current_start += duration
next_start(start, duration) == RatAdd(start, duration)

HoneyText ==
    <<
       "H", "o", "n", "e", "y", " ", "n", "e", "v", "e", "r", " ", "s",
       "p", "o", "i", "l", "s", ".", " ", "A", "n", "c", "i", "e", "n",
       "t", " ", "p", "o", "t", "s", " ", "w", "e", "r", "e", " ", "f",
       "o", "u", "n", "d", " ", "i", "n", "t", "a", "c", "t", "." >>

TimelineVocabulary == { << "a" >>, << "a", "." >>, << "s", "k", "y" >> }

TimelineTexts ==
    { Join(ws) : ws \in SeqsUpTo(TimelineVocabulary, MaxTimelineWords) }
    \cup { HoneyText }

\* the values of config["words_per_second"] that are tried: the default 2.5
\* and 1
WordsPerSecondChoices == { Rat(5, 2), RatInt(1) }

InitTimeline ==
    /\ text \in TimelineTexts
    /\ pc = "idle"
    /\ non_silent_ranges = << >>
    /\ total_duration = NoValue
    /\ branch = "none"
    /\ chunks = << >>
    /\ chunk_timings = << >>
    /\ audio_indices = << >>
    /\ segments = << >>
    /\ max_words = 0
    /\ words_per_second = NoValue
    /\ sentences = << >>
    /\ estimates = << >>
    /\ sentence_data = << >>
    /\ loop_index = 0
    /\ current_start = RatInt(0)
    /\ segment_text_clips = << >>
    /\ background_segments = << >>
    /\ temp_dir = "none"
    /\ segment_error = "none"
    /\ final_duration = NoValue
    /\ StageVarsIdle

\* prepare_sentence_data(fact_text, config)
PrepareSentenceData ==
    /\ pc = "idle"
    /\ \E wps \in WordsPerSecondChoices, m \in ChunkSizes, ss \in SentTokenize(text) :
         /\ words_per_second' = wps
         /\ max_words' = m
         /\ sentences' = ss
         /\ estimates' = [k \in 1..Len(ss) |-> estimate_sentence_duration(ss[k], wps)]
         /\ sentence_data' =
                Flatten([k \in 1..Len(ss) |-> SentenceEntries(ss[k], wps, m)])
    /\ pc' = "prepared"
    /\ UNCHANGED stageVars
    /\ UNCHANGED segment_error
    /\ UNCHANGED << text, non_silent_ranges, total_duration, branch, chunks,
                    chunk_timings, audio_indices, segments, loop_index,
                    current_start, segment_text_clips, background_segments,
                    temp_dir, final_duration >>

\* assemble_multi_background_video, up to the loop: temp_dir = mkdtemp(),
\* current_start = 0
AssembleBegin ==
    /\ pc = "prepared"
    /\ temp_dir' = "exists"
    /\ current_start' = RatInt(0)
    /\ loop_index' = 0
    /\ background_segments' = << >>
    /\ segment_text_clips' = << >>
    /\ pc' = "assembling"
    /\ UNCHANGED stageVars
    /\ UNCHANGED segment_error
    /\ UNCHANGED << text, non_silent_ranges, total_duration, branch, chunks,
                    chunk_timings, audio_indices, segments, max_words,
                    words_per_second, sentences, estimates, sentence_data,
                    final_duration >>

\* what the inner try of one iteration can meet: nothing, an exception of
\* download_background_clip (every source failed), or one of
\* preprocess_video_clip
SegmentErrors == { "none", "download", "preprocess" }

\* a mutant: the placeholder is not given the segment's duration
segment_background_unsized(error, duration) ==
    IF error = "none"
    THEN [kind |-> "video", duration |-> duration]
    ELSE [kind |-> "color", duration |-> RatInt(0)]

\* bg_clip: the preprocessed clip, or in the except branch
\* ColorClip(resolution, color=(40, 40, 40), duration=duration)
segment_background(error, duration) ==
    IF error = "none"
    THEN [kind |-> "video", duration |-> duration]
    ELSE [kind |-> "color", duration |-> duration]

\* one iteration of the loop over sentence_data: the background is the
\* downloaded, preprocessed clip or, when that raised, a ColorClip of the
\* segment's duration; the caption is placed at current_start
AssembleSegment ==
    /\ pc = "assembling"
    /\ loop_index < Len(sentence_data)
    /\ LET segment == sentence_data[loop_index + 1]
       IN  /\ \E error \in SegmentErrors :
                /\ segment_error' = error
                /\ background_segments' =
                       Append(background_segments,
                              segment_background(error, segment.duration))
           /\ segment_text_clips' =
                  Append(segment_text_clips,
                         [text     |-> segment.text,
                          start    |-> current_start,
                          duration |-> segment.duration])
           /\ current_start' = next_start(current_start, segment.duration)
    /\ loop_index' = loop_index + 1
    /\ UNCHANGED stageVars
    /\ UNCHANGED << text, pc, non_silent_ranges, total_duration, branch, chunks,
                    chunk_timings, audio_indices, segments, max_words,
                    words_per_second, sentences, estimates, sentence_data,
                    temp_dir, final_duration >>

\* shutil.rmtree(temp_dir) in the finally block; a failure is only logged
RemoveTempDir == temp_dir' \in {"removed", "exists"}

\* after the loop: the clips are concatenated and composed,
\* final_clip.duration = sum of the segments' durations
\* (concatenate_videoclips raises on an empty list)
AssembleFinish ==
    /\ pc = "assembling"
    /\ loop_index = Len(sentence_data)
    /\ Len(sentence_data) > 0
    /\ final_duration' =
           RatSum([k \in 1..Len(sentence_data) |-> sentence_data[k].duration])
    /\ RemoveTempDir
    /\ pc' = "assembled"
    /\ UNCHANGED stageVars
    /\ UNCHANGED segment_error
    /\ UNCHANGED << text, non_silent_ranges, total_duration, branch, chunks,
                    chunk_timings, audio_indices, segments, max_words,
                    words_per_second, sentences, estimates, sentence_data,
                    loop_index, current_start, segment_text_clips,
                    background_segments >>

\* an exception outside the inner try (TextClip, concatenate_videoclips,
\* AudioFileClip) leaves through the finally block
AssembleAbort ==
    /\ pc = "assembling"
    /\ RemoveTempDir
    /\ pc' = "failed"
    /\ UNCHANGED stageVars
    /\ UNCHANGED segment_error
    /\ UNCHANGED << text, non_silent_ranges, total_duration, branch, chunks,
                    chunk_timings, audio_indices, segments, max_words,
                    words_per_second, sentences, estimates, sentence_data,
                    loop_index, current_start, segment_text_clips,
                    background_segments, final_duration >>

NextTimeline ==
    \/ PrepareSentenceData
    \/ AssembleBegin
    \/ AssembleSegment
    \/ AssembleFinish
    \/ AssembleAbort

SpecTimeline == InitTimeline /\ [][NextTimeline]_vars

----------------------------------------------------------------------------
(* Properties of the aligner and the segmenter, checked under Spec *)

SegmentDurations == [k \in 1..Len(segments) |-> segments[k].duration]
TenMs == Rat(1, 100)

\* C1: the segments analyze_voiceover_timing returns are contiguous, the
\* first starts at 0 and the last ends at the audio duration, so that their
\* durations sum to the audio duration within 10 ms, in both branches.
C1_SegmentsCoverAudio ==
    (pc = "analyzed" /\ segments # << >>) =>
        /\ segments[1].start = RatInt(0)
        /\ \A k \in 1..(Len(segments) - 1) : segments[k].end = segments[k + 1].start
        /\ segments[Len(segments)].end = total_duration
        /\ RatLe(RatAbs(RatSub(RatSum(SegmentDurations), total_duration)), TenMs)

\* C3: the fallback branch is taken exactly when twice the number of
\* detected ranges is below the number of whitespace-separated words, and
\* the mapped strategy otherwise (the boundary included).
C3_FallbackThreshold ==
    pc = "analyzed" =>
        /\ branch \in {"fallback", "mapped"}
        /\ branch = "fallback" <=> 2 * Len(non_silent_ranges) < Len(Split(text))

C3_BoundaryTakesMapped ==
    /\ pc = "analyzed"
    /\ branch = "mapped"
    /\ Len(Split(text)) > 0
    /\ 2 * Len(non_silent_ranges) = Len(Split(text))

\* C4: in the fallback the text is cut into 5-word chunks and chunk i of n
\* (from 0) gets [i*D/n, (i+1)*D/n]: equal, contiguous, ordered slices from
\* 0 that sum to D; 20 words with 3 ranges give 4 slices of D/4.
C4_FallbackEqualSlices ==
    (pc = "analyzed" /\ branch = "fallback") =>
        LET words == Split(text)
            n     == Len(segments)
        IN  /\ n = (Len(words) + 4) \div 5
            /\ n >= 1
            /\ \A k \in 1..n :
                 /\ Split(segments[k].text) =
                        SubSeq(words, 5 * (k - 1) + 1, Min(5 * k, Len(words)))
                 /\ segments[k].start = Rat((k - 1) * total_duration.num,
                                            n * total_duration.den)
                 /\ segments[k].end = Rat(k * total_duration.num,
                                          n * total_duration.den)
                 /\ segments[k].duration = Rat(total_duration.num,
                                               n * total_duration.den)
            /\ segments[1].start = RatInt(0)
            /\ segments[n].end = total_duration
            /\ RatSum(SegmentDurations) = total_duration

C4_TwentyWordsThreeRanges ==
    /\ pc = "analyzed"
    /\ Len(Split(text)) = 20
    /\ Len(non_silent_ranges) = 3
    /\ branch = "fallback"
    /\ Len(segments) = 4
    /\ \A k \in 1..4 : RatMul(RatInt(4), segments[k].duration) = total_duration

\* C5: in the mapped strategy with no more chunks than ranges, chunk i gets
\* exactly the bounds of range i, its duration is end - start, and no two
\* chunks share a range.
C5_OneToOneMapping ==
    (pc = "analyzed" /\ branch = "mapped" /\ Len(chunks) <= Len(non_silent_ranges)) =>
        /\ Len(segments) = Len(chunks)
        /\ \A k \in 1..Len(segments) :
             /\ segments[k].start = non_silent_ranges[k][1]
             /\ segments[k].end = non_silent_ranges[k][2]
             /\ segments[k].duration = RatSub(non_silent_ranges[k][2],
                                              non_silent_ranges[k][1])
        /\ \A j, k \in 1..Len(audio_indices) :
             j # k => audio_indices[j] # audio_indices[k]

C5_AsManyChunksAsRanges ==
    /\ pc = "analyzed"
    /\ branch = "mapped"
    /\ Len(chunks) = Len(non_silent_ranges)
    /\ Len(chunks) >= 2

\* C6 as stated: with more chunks than ranges, chunk i is given the range
\* floor(i * chunk_count / range_count), clamped to the last index.
C6_IndexTimesRatio ==
    (pc = "analyzed" /\ branch = "mapped" /\ Len(chunks) > Len(non_silent_ranges)) =>
        \A k \in 1..Len(chunks) :
            audio_indices[k] =
                Min(((k - 1) * Len(chunks)) \div Len(non_silent_ranges),
                    Len(non_silent_ranges) - 1)

\* C6 amended: with more chunks than ranges, chunk i is given the range
\* int(i / ratio), ratio = chunk_count / range_count: floor(i * range_count /
\* chunk_count), or one less than that when i * range_count is a positive
\* multiple of chunk_count (the double quotient may fall just below the
\* integer); the index is below range_count without the clamp, and the
\* segment takes that range's bounds.
C6_IndexDividedByRatio ==
    (pc = "analyzed" /\ branch = "mapped" /\ Len(chunks) > Len(non_silent_ranges)) =>
        LET c == Len(chunks)
            a == Len(non_silent_ranges)
        IN  \A k \in 1..c :
              LET exact == ((k - 1) * a) \div c
              IN  /\ \/ audio_indices[k] = exact
                     \/ /\ exact >= 1
                        /\ ((k - 1) * a) % c = 0
                        /\ audio_indices[k] = exact - 1
                  /\ audio_indices[k] \in 0..(a - 1)
                  /\ segments[k].start = non_silent_ranges[audio_indices[k] + 1][1]
                  /\ segments[k].end = non_silent_ranges[audio_indices[k] + 1][2]

C6_MoreChunksThanRanges ==
    /\ pc = "analyzed"
    /\ branch = "mapped"
    /\ Len(non_silent_ranges) >= 2
    /\ Len(chunks) > Len(non_silent_ranges)
    /\ audio_indices[2] = 0
    /\ audio_indices[Len(chunks)] = Len(non_silent_ranges) - 1

\* C7: in both branches there are as many segments as chunks the text was
\* split into, and segment k carries the text of chunk k.
C7_SegmentsFollowChunks ==
    pc = "analyzed" =>
        /\ branch = "fallback" =>
             chunks = split_text_into_word_chunks(text, DefaultMaxWordsPerChunk)
        /\ branch = "mapped" => chunks = MappedChunks(Split(text))
        /\ Len(segments) = Len(chunks)
        /\ \A k \in 1..Len(chunks) : segments[k].text = chunks[k]

C7_SeveralDistinctChunks ==
    /\ pc = "analyzed"
    /\ branch = "mapped"
    /\ Len(segments) >= 2
    /\ segments[1].text # segments[Len(segments)].text


\* the words of each chunk, chunk by chunk
ChunkWords == [k \in 1..Len(chunks) |-> Split(chunks[k])]

\* C8 as stated: split_text_into_word_chunks closes a chunk at the maximum
\* size or at a word ending in . ! ?, whichever comes first, and flushes the
\* rest: the rule of the mapped strategy's loop.
C8_SplitClosesAtPunctuation ==
    pc = "split" => chunks = PunctuationChunks(Split(text), max_words)

\* C8 amended: split_text_into_word_chunks closes a chunk only when it holds
\* max_words_per_chunk words, whatever their punctuation, and flushes the
\* rest: every chunk but the last holds exactly max_words_per_chunk words
\* and the last holds 1..max_words_per_chunk.  The mapped strategy uses
\* another rule: it closes a chunk at 5 words or at a word ending in . ! ?,
\* so only the last word of its chunks can end in . ! ? and every chunk but
\* the last is full or ends in such a word.
C8_SplitClosesAtSizeOnly ==
    /\ pc = "split" =>
         /\ Len(chunks) = (Len(Split(text)) + max_words - 1) \div max_words
         /\ \A k \in 1..Len(chunks) :
              /\ k < Len(chunks) => Len(ChunkWords[k]) = max_words
              /\ Len(ChunkWords[k]) \in 1..max_words
    /\ (pc = "analyzed" /\ branch = "mapped") =>
         \A k \in 1..Len(chunks) :
            LET ws == ChunkWords[k]
            IN  /\ Len(ws) \in 1..MappedChunkWords
                /\ \A j \in 1..(Len(ws) - 1) : ~EndsWithTerminal(ws[j])
                /\ k < Len(chunks) =>
                     \/ Len(ws) = MappedChunkWords
                     \/ EndsWithTerminal(ws[Len(ws)])

C8_SentenceEndInsideChunk ==
    /\ pc = "split"
    /\ \E k \in 1..Len(chunks) :
         \E j \in 1..(Len(ChunkWords[k]) - 1) : EndsWithTerminal(ChunkWords[k][j])
    /\ chunks # PunctuationChunks(Split(text), max_words)

\* C9: joining the chunks in order with single spaces and splitting on
\* whitespace gives back the word sequence of the text, for the word-chunk
\* split with any maximum size and for the aligner's chunks.
C9_RejoinGivesWords ==
    pc \in {"split", "analyzed"} => Split(Join(chunks)) = Split(text)

C9_SeveralChunksOfUnevenText ==
    /\ pc = "split"
    /\ Len(chunks) >= 2
    /\ Join(chunks) # text

\* C10: no chunk of the word-chunk split is empty, each holds between 1 and
\* max_words_per_chunk words, and each word of the text lies whole in one
\* chunk, whatever its length.
C10_ChunksHoldWholeWords ==
    pc = "split" =>
        /\ \A k \in 1..Len(chunks) :
             /\ chunks[k] # << >>
             /\ Len(ChunkWords[k]) >= 1
             /\ Len(ChunkWords[k]) <= max_words
        /\ Flatten(ChunkWords) = Split(text)

C10_WordLongerThanChunkSize ==
    /\ pc = "split"
    /\ max_words = 1
    /\ Len(chunks) >= 2
    /\ \E k \in 1..Len(chunks) : Len(chunks[k]) > max_words



----------------------------------------------------------------------------
(* Properties of the estimate-only timeline, checked under SpecTimeline *)

\* the number of chunks of sentence s, and of the sentences before it
SentenceChunkCount(s) ==
    (Len(Split(sentences[s])) + max_words - 1) \div max_words

RECURSIVE ChunksBefore(_)
ChunksBefore(s) ==
    IF s = 1 THEN 0 ELSE ChunksBefore(s - 1) + SentenceChunkCount(s - 1)

ClipEnd(k) == RatAdd(segment_text_clips[k].start, segment_text_clips[k].duration)

----------------------------------------------------------------------------
(* Duration Estimator alone: visual_processing.estimate_sentence_duration
   applied to one sentence given character by character *)

EstimatorAlphabet == { "a", "'", " " }

DontText == << "d", "o", "n", "'", "t" >>

EstimatorSentences ==
    SeqsUpTo(EstimatorAlphabet, MaxSentenceChars) \cup { DontText }

\* every variable of the timing pipeline but text, pc, words_per_second and
\* estimates, before any operation
TimelineVarsIdle ==
    /\ non_silent_ranges = << >>
    /\ total_duration = NoValue
    /\ branch = "none"
    /\ chunks = << >>
    /\ chunk_timings = << >>
    /\ audio_indices = << >>
    /\ segments = << >>
    /\ max_words = 0
    /\ sentences = << >>
    /\ sentence_data = << >>
    /\ loop_index = 0
    /\ current_start = RatInt(0)
    /\ segment_text_clips = << >>
    /\ background_segments = << >>
    /\ temp_dir = "none"
    /\ segment_error = "none"
    /\ final_duration = NoValue

timelineRest == << non_silent_ranges, total_duration, branch, chunks,
                   chunk_timings, audio_indices, segments, max_words,
                   sentences, sentence_data, loop_index, current_start,
                   segment_text_clips, background_segments, temp_dir,
                   segment_error, final_duration >>

InitEstimate ==
    /\ text \in EstimatorSentences
    /\ pc = "idle"
    /\ words_per_second = NoValue
    /\ estimates = << >>
    /\ TimelineVarsIdle
    /\ StageVarsIdle

\* estimate_sentence_duration(sentence, words_per_second)
EstimateSentenceDuration ==
    /\ pc = "idle"
    /\ \E wps \in WordsPerSecondChoices :
         /\ words_per_second' = wps
         /\ estimate_word_count' = CountWordRuns(text, 1, FALSE)
         /\ estimates' = << estimate_sentence_duration(text, wps) >>
    /\ pc' = "estimated"
    /\ UNCHANGED << text, timelineRest, resolverVars, factVars, mainVars >>

NextEstimate ==
    \/ EstimateSentenceDuration

SpecEstimate == InitEstimate /\ [][NextEstimate]_vars

----------------------------------------------------------------------------
(* Background Resolver: visual_processing.select_background and
   video_assembly.download_background_clip *)

\* sep.join(ws)
RECURSIVE JoinWith(_, _)
JoinWith(ws, sep) ==
    IF ws = << >> THEN << >>
    ELSE IF Len(ws) = 1 THEN ws[1]
    ELSE ws[1] \o << sep >> \o JoinWith(Tail(ws), sep)

\* a mutant: the query of an empty keyword list is left empty
search_query_undefaulted(ks) ==
    JoinWith(SubSeq(ks, 1, Min(QueryKeywords, Len(ks))), "+")

\* query = "+".join(keywords[:3]) if keywords else "nature"
search_query(ks) ==
    IF ks # << >>
    THEN JoinWith(SubSeq(ks, 1, Min(QueryKeywords, Len(ks))), "+")
    ELSE DefaultKeyword

\* what a source answers.  An API source (pixabay, pexels): the search
\* request fails or is refused (request_error, bad_status), finds nothing
\* (no_results), or names a video whose download then fails
\* (download_error) or succeeds (ok).  A direct .mp4 URL is only downloaded.
\* A source of another kind is skipped.
ApiOutcomes ==
    { "ok", "request_error", "bad_status", "no_results", "download_error" }
DirectOutcomes == { "ok", "download_error" }

SourceChoices ==
    { [kind |-> k, outcome |-> o] : k \in {"pixabay", "pexels"}, o \in ApiOutcomes }
    \cup { [kind |-> "direct", outcome |-> o] : o \in DirectOutcomes }
    \cup { [kind |-> "unknown", outcome |-> "skipped"] }

\* the default of config.get("video_sources", ...): pixabay, pexels, one file
DefaultSources ==
    { << [kind |-> "pixabay", outcome |-> a], [kind |-> "pexels", outcome |-> b],
         [kind |-> "direct", outcome |-> c] >> :
      a \in ApiOutcomes, b \in ApiOutcomes, c \in DirectOutcomes }

SourceInputs == SeqsUpTo(SourceChoices, MaxSources) \cup DefaultSources

\* the requests.get calls one pass of the loop body makes for source i
SourceRequests(source, i) ==
    LET api  == [source |-> i, request |-> "search"]
        file == [source |-> i, request |-> "download"]
    IN  CASE source.kind = "unknown" -> << >>
          [] source.kind = "direct" -> << file >>
          [] source.outcome \in {"ok", "download_error"} -> << api, file >>
          [] OTHER -> << api >>

\* a mutant: the first failure is raised instead of trying the next source
TrySourcesNoRetry(sources, i, requests) ==
    IF i > Len(sources)
    THEN [result |-> "raised", source |-> 0, requests |-> requests]
    ELSE [result |-> IF sources[i].outcome = "ok" THEN "returned" ELSE "raised",
          source |-> IF sources[i].outcome = "ok" THEN i ELSE 0,
          requests |-> requests \o SourceRequests(sources[i], i)]

\* for source in video_sources: try ... return temp_video_path /
\* except Exception: continue; after the loop: raise
RECURSIVE TrySources(_, _, _)
TrySources(sources, i, requests) ==
    IF i > Len(sources)
    THEN [result |-> "raised", source |-> 0, requests |-> requests]
    ELSE IF sources[i].outcome = "ok"
    THEN [result |-> "returned", source |-> i,
          requests |-> requests \o SourceRequests(sources[i], i)]
    ELSE TrySources(sources, i + 1, requests \o SourceRequests(sources[i], i))

\* download_background_clip(keywords, config, temp_dir, index): the record of
\* one call.  path is where the returned file lies.
download_background_clip(ks, sources, temp_dir_given) ==
    LET tried == TrySources(sources, 1, << >>)
    IN  [query    |-> search_query(ks),
         sources  |-> sources,
         requests |-> tried.requests,
         result   |-> tried.result,
         source   |-> tried.source,
         path     |-> IF tried.result = "returned"
                      THEN [origin |-> "remote",
                            dir |-> IF temp_dir_given THEN "given" ELSE "created"]
                      ELSE NoValue]

KeywordPool ==
    << << "o", "c", "e", "a", "n" >>, << "w", "a", "v", "e" >>,
       << "s", "e", "a" >>, << "s", "k", "y" >>, << "s", "u", "n" >> >>

\* keyword lists of every length a caller can hand in, the empty one included
KeywordLists ==
    { SubSeq(KeywordPool, 1, n) : n \in 0..Min(MaxKeywords, Len(KeywordPool)) }

OceanSunset ==
    << "o", "c", "e", "a", "n", "_", "s", "u", "n", "s", "e", "t", ".", "m", "p", "4" >>
CityTraffic ==
    << "c", "i", "t", "y", "_", "t", "r", "a", "f", "f", "i", "c", ".", "m", "p", "4" >>

LocalDirectories == { {}, { OceanSunset, CityTraffic } }

\* sentences whose keywords are extracted before the download
ResolverSentences ==
    { << >>, << "a", " ", "a", "." >>, << "s", "k", "y", " ", "a" >>, HoneyText }

InitDownload ==
    /\ text \in ResolverSentences
    /\ pc = "idle"
    /\ words_per_second = NoValue
    /\ estimates = << >>
    /\ TimelineVarsIdle
    /\ EstimatorIdle
    /\ query_keywords \in KeywordLists
    /\ local_files \in LocalDirectories
    /\ download = NoValue
    /\ created_temp_dir = "none"
    /\ FactIdle
    /\ MainIdle

\* keywords = extract_sentence_keywords(sentence), as prepare_sentence_data
\* does for each sentence
ExtractSentenceKeywords ==
    /\ pc = "idle"
    /\ query_keywords' = extract_sentence_keywords(text)
    /\ pc' = "extracted"
    /\ UNCHANGED << text, words_per_second, estimates, timelineRest,
                    estimatorVars, local_files, download, created_temp_dir,
                    factVars, mainVars >>

\* select_background(keywords, config): download_background_clip(keywords,
\* config) with temp_dir = None, so the function makes its own directory
\* with tempfile.mkdtemp; nothing removes it
SelectBackground ==
    /\ pc \in {"idle", "extracted"}
    /\ \E sources \in SourceInputs :
         download' = download_background_clip(query_keywords, sources, FALSE)
    /\ created_temp_dir' = "exists"
    /\ pc' = "resolved"
    /\ UNCHANGED << text, words_per_second, estimates, timelineRest,
                    estimatorVars, query_keywords, local_files, factVars,
                    mainVars >>

\* download_background_clip(keywords, config, temp_dir, i) as the
\* multi-segment loop calls it: the caller's directory is used
DownloadBackgroundClip ==
    /\ pc \in {"idle", "extracted"}
    /\ \E sources \in SourceInputs :
         download' = download_background_clip(query_keywords, sources, TRUE)
    /\ pc' = "downloaded"
    /\ UNCHANGED << text, words_per_second, estimates, timelineRest,
                    estimatorVars, query_keywords, local_files,
                    created_temp_dir, factVars, mainVars >>

NextDownload ==
    \/ ExtractSentenceKeywords
    \/ SelectBackground
    \/ DownloadBackgroundClip

SpecDownload == InitDownload /\ [][NextDownload]_vars

----------------------------------------------------------------------------
(* Fact Source: fact_retrieval.get_fact and expand_fact_with_ai *)

\* for key in ['text', 'fact', 'content', 'value', 'message']
KnownFactKeys == << "text", "fact", "content", "value", "message" >>

\* the keys of the model's JSON objects: two of the known ones and another
ObjectKeys == { "text", "fact", "id" }

\* a JSON value is a string or something else (number, null, list, object)
ValueTypes == { "str", "other" }

\* a JSON object: its members in document order, no key twice
JsonObjects ==
    { m \in SeqsUpTo([key : ObjectKeys, type : ValueTypes], MaxObjectKeys) :
        \A a, b \in 1..Len(m) : a # b => m[a].key # m[b].key }

\* what requests.get(api_url) meets: an exception of requests, a bad status,
\* a body that is not JSON, or a JSON string, list, number or object
FactResponses ==
    { [kind |-> k, members |-> << >>] :
        k \in { "connection_error", "http_error", "not_json", "json_string",
                "json_array", "json_number" } }
    \cup { [kind |-> "json_object", members |-> m] : m \in JsonObjects }

\* what one expansion service does: it has no key configured, its request
\* fails, or it answers with a text or with nothing usable
ServiceOutcomes == { "no_key", "error", "text", "empty" }

\* the config handed to get_fact: none, or its AI expansion settings
FactOptions ==
    { NoValue } \cup
    [enabled : BOOLEAN, huggingface : ServiceOutcomes, gemini : ServiceOutcomes]

\* the isinstance(data, dict) branch: the value of the first known key the
\* object has, else list(data.values())[0], which raises IndexError on {}
object_value(members) ==
    LET known == { k \in 1..Len(KnownFactKeys) :
                     \E a \in 1..Len(members) : members[a].key = KnownFactKeys[k] }
    IN  IF known # {}
        THEN LET first == CHOOSE k \in known : \A j \in known : k <= j
                 a == CHOOSE a \in 1..Len(members) : members[a].key = KnownFactKeys[first]
             IN  [raised |-> FALSE, type |-> members[a].type]
        ELSE IF members = << >>
        THEN [raised |-> TRUE, type |-> "none"]
        ELSE [raised |-> FALSE, type |-> members[1].type]

\* expand_fact_with_ai(fact, config): where the returned value comes from.
\* Hugging Face returns whatever text it extracted, an empty one included;
\* Gemini returns only a non-empty text; the rule-based expansion
\* concatenates strings, so for a fact that is no string its TypeError is
\* caught and the fact is returned as it is.
expand_fact_with_ai(type, options) ==
    CASE options.huggingface = "text" -> [type |-> "str", origin |-> "huggingface"]
      [] options.huggingface = "empty" -> [type |-> type, origin |-> "response"]
      [] options.gemini = "text" -> [type |-> "str", origin |-> "gemini"]
      [] type = "str" -> [type |-> "str", origin |-> "rules"]
      [] OTHER -> [type |-> type, origin |-> "response"]

Returned(type, origin, pick) ==
    [outcome |-> "returned", type |-> type, origin |-> origin,
     fallback |-> pick, exception |-> "none"]

\* get_fact(api_url, config); pick is the index random.choice draws
get_fact(response, options, pick) ==
    LET enabled == IF options = NoValue THEN FALSE ELSE options.enabled
        fetched ==
            CASE response.kind \in {"connection_error", "http_error"} ->
                     [raised |-> TRUE, type |-> "none"]
              [] response.kind = "json_object" -> object_value(response.members)
              [] OTHER -> [raised |-> FALSE, type |-> "str"]
    IN  IF response.kind \in {"connection_error", "http_error"}
        THEN Returned("str", "fallback", pick)
        ELSE IF fetched.raised
        THEN [outcome |-> "raised", type |-> "none", origin |-> "response",
              fallback |-> 0, exception |-> "IndexError"]
        ELSE IF enabled
        THEN LET expanded == expand_fact_with_ai(fetched.type, options)
             IN  Returned(expanded.type, expanded.origin, 0)
        ELSE Returned(fetched.type, "response", 0)

InitFact ==
    /\ text = << >>
    /\ pc = "idle"
    /\ words_per_second = NoValue
    /\ estimates = << >>
    /\ TimelineVarsIdle
    /\ EstimatorIdle
    /\ ResolverIdle
    /\ fact_response \in FactResponses
    /\ fact_options \in FactOptions
    /\ fact_result = NoValue
    /\ MainIdle

GetFact ==
    /\ pc = "idle"
    /\ \E pick \in 1..NumFallbackFacts :
         fact_result' = get_fact(fact_response, fact_options, pick)
    /\ pc' = "fetched"
    /\ UNCHANGED << text, words_per_second, estimates, timelineRest,
                    estimatorVars, resolverVars, fact_response, fact_options,
                    mainVars >>

NextFact ==
    \/ GetFact

SpecFact == InitFact /\ [][NextFact]_vars

----------------------------------------------------------------------------
(* The single-block pipeline: main.main with fact_retrieval, audio_processing,
   visual_processing.create_text_clip, video_assembly.assemble_video and
   save_video *)

\* the options main and assemble_video look up
ConfigOptions ==
    { "api_url", "audio_language", "background_music", "music_volume",
      "video_sources", "video_duration", "resolution", "crop_background",
      "fps" }

\* configuration documents, by the options they hold: the empty one, the
\* complete one, and those near either
ConfigDocuments ==
    { c \in SUBSET ConfigOptions :
        \/ Cardinality(c) <= MaxConfigKeys
        \/ Cardinality(ConfigOptions \ c) <= MaxConfigKeys }

\* config.get("video_duration", 30), after main has stored its own value
video_duration(c) ==
    IF "video_duration" \in c THEN MainVideoDuration ELSE DefaultVideoDuration

\* config.get("video_sources", [...]) with what each source then answers
MainSources(c) ==
    IF "video_sources" \in c
    THEN SeqsUpTo(SourceChoices, MaxSources - 1)
    ELSE DefaultSources

\* durations of the narration gTTS produces: shorter than, equal to and
\* longer than main's video_duration
NarrationDurations == { RatInt(8), RatInt(MainVideoDuration), RatInt(75) }

\* what no stage of main touches
mainFrame == << text, words_per_second, estimates, estimatorVars, local_files,
               fact_response, fact_options, non_silent_ranges, total_duration,
               branch, chunks, chunk_timings, audio_indices, segments,
               max_words, sentences, sentence_data, loop_index, current_start,
               segment_text_clips, background_segments, temp_dir,
               segment_error >>

InitMain ==
    /\ text = << >>
    /\ pc = "idle"
    /\ words_per_second = NoValue
    /\ estimates = << >>
    /\ TimelineVarsIdle
    /\ EstimatorIdle
    /\ ResolverIdle
    /\ FactIdle
    /\ config \in ConfigDocuments
    /\ run_error = NoValue
    /\ audio_duration = NoValue
    /\ text_clip = NoValue

\* a mutant: the exception is caught and the run goes on to report success
AbortSwallowed(stage, exception) ==
    /\ pc' = "reported"
    /\ run_error' = [stage |-> stage, exception |-> exception]

\* an exception leaves main: nothing catches it
Abort(stage, exception) ==
    /\ pc' = "aborted"
    /\ run_error' = [stage |-> stage, exception |-> exception]

\* config = load_config(config); config['video_duration'] = video_duration
MainLoadConfig ==
    /\ pc = "idle"
    /\ config' = config \cup { "video_duration" }
    /\ pc' = "config_loaded"
    /\ UNCHANGED << mainFrame, query_keywords, download, created_temp_dir,
                    fact_result, run_error, audio_duration, text_clip,
                    final_duration >>

\* fact_text = get_fact(config['api_url']): the subscript raises KeyError
\* when the key is absent; get_fact is called without a config
MainGetFact ==
    /\ pc = "config_loaded"
    /\ IF "api_url" \notin config
       THEN /\ Abort("fact_retrieval", "KeyError")
            /\ UNCHANGED fact_result
       ELSE \E response \in FactResponses, pick \in 1..NumFallbackFacts :
              LET result == get_fact(response, NoValue, pick)
              IN  /\ fact_result' = result
                  /\ IF result.outcome = "raised"
                     THEN Abort("fact_retrieval", result.exception)
                     ELSE pc' = "fact_retrieved" /\ UNCHANGED run_error
    /\ UNCHANGED << mainFrame, config, query_keywords, download,
                    created_temp_dir, audio_duration, text_clip,
                    final_duration >>

\* keywords = extract_keywords(fact_text): five keywords, padded with the
\* default ones; text.lower() raises AttributeError when the fact is no string
MainExtractKeywords ==
    /\ pc = "fact_retrieved"
    /\ IF fact_result.type = "str"
       THEN /\ query_keywords' = KeywordPool
            /\ pc' = "keywords_extracted"
            /\ UNCHANGED run_error
       ELSE /\ Abort("keyword_extraction", "AttributeError")
            /\ UNCHANGED query_keywords
    /\ UNCHANGED << mainFrame, config, download, created_temp_dir, fact_result,
                    audio_duration, text_clip, final_duration >>

\* voiceover_path = generate_voiceover(...): gTTS writes the narration or
\* raises
MainGenerateVoiceover ==
    /\ pc = "keywords_extracted"
    /\ \/ \E d \in NarrationDurations :
            /\ audio_duration' = d
            /\ pc' = "voiceover_generated"
            /\ UNCHANGED run_error
       \/ /\ Abort("narration", "gTTSError")
          /\ UNCHANGED audio_duration
    /\ UNCHANGED << mainFrame, config, query_keywords, download,
                    created_temp_dir, fact_result, text_clip, final_duration >>

\* music_file = load_music(music_path=config["background_music"], ...): the
\* subscript raises KeyError when the key is absent; AudioFileClip may raise
MainLoadMusic ==
    /\ pc = "voiceover_generated"
    /\ IF "background_music" \notin config
       THEN Abort("music_loading", "KeyError")
       ELSE \/ pc' = "music_loaded" /\ UNCHANGED run_error
            \/ Abort("music_loading", "OSError")
    /\ UNCHANGED << mainFrame, config, query_keywords, download,
                    created_temp_dir, fact_result, audio_duration, text_clip,
                    final_duration >>

\* background_clip_path = select_background(keywords, config)
MainSelectBackground ==
    /\ pc = "music_loaded"
    /\ \E sources \in MainSources(config) :
         LET clip == download_background_clip(query_keywords, sources, FALSE)
         IN  /\ download' = clip
             /\ IF clip.result = "raised"
                THEN Abort("background_resolution", "Exception")
                ELSE pc' = "background_selected" /\ UNCHANGED run_error
    /\ created_temp_dir' = "exists"
    /\ UNCHANGED << mainFrame, config, query_keywords, fact_result,
                    audio_duration, text_clip, final_duration >>

\* text_clip = create_text_clip("Did You Know?\n" + fact_text, config): no
\* start is set, the duration is config's video_duration; TextClip may raise
MainCreateTextClip ==
    /\ pc = "background_selected"
    /\ \/ /\ text_clip' = [start |-> RatInt(0),
                            duration |-> RatInt(video_duration(config))]
          /\ pc' = "caption_created"
          /\ UNCHANGED run_error
       \/ /\ Abort("caption", "OSError")
          /\ UNCHANGED text_clip
    /\ UNCHANGED << mainFrame, config, query_keywords, download,
                    created_temp_dir, fact_result, audio_duration,
                    final_duration >>

\* final_video_clip = assemble_video(...): final_clip.duration =
\* video_duration; a failure of the background, the voiceover or the music
\* is raised again as Exception
MainAssembleVideo ==
    /\ pc = "caption_created"
    /\ \/ /\ final_duration' = RatInt(video_duration(config))
          /\ pc' = "video_assembled"
          /\ UNCHANGED run_error
       \/ /\ Abort("assembly", "Exception")
          /\ UNCHANGED final_duration
    /\ UNCHANGED << mainFrame, config, query_keywords, download,
                    created_temp_dir, fact_result, audio_duration, text_clip >>

\* save_video(final_video_clip, output_filename, fps=config.get("fps", 32))
MainSaveVideo ==
    /\ pc = "video_assembled"
    /\ \/ pc' = "video_saved" /\ UNCHANGED run_error
       \/ Abort("save", "OSError")
    /\ UNCHANGED << mainFrame, config, query_keywords, download,
                    created_temp_dir, fact_result, audio_duration, text_clip,
                    final_duration >>

\* print("Video successfully generated and saved to:", output_filename)
MainReport ==
    /\ pc = "video_saved"
    /\ pc' = "reported"
    /\ UNCHANGED << mainFrame, config, query_keywords, download,
                    created_temp_dir, fact_result, run_error, audio_duration,
                    text_clip, final_duration >>

NextMain ==
    \/ MainLoadConfig
    \/ MainGetFact
    \/ MainExtractKeywords
    \/ MainGenerateVoiceover
    \/ MainLoadMusic
    \/ MainSelectBackground
    \/ MainCreateTextClip
    \/ MainAssembleVideo
    \/ MainSaveVideo
    \/ MainReport

SpecMain == InitMain /\ [][NextMain]_vars

----------------------------------------------------------------------------
(* Multi-segment assembly followed by rendering:
   video_assembly.assemble_multi_background_video, then save_video on the
   clip it returned *)

RenderTexts ==
    { Join(ws) : ws \in SeqsUpTo(TimelineVocabulary, MaxRenderWords) }
    \cup { HoneyText }

InitRender ==
    /\ text \in RenderTexts
    /\ pc = "idle"
    /\ words_per_second = NoValue
    /\ estimates = << >>
    /\ TimelineVarsIdle
    /\ StageVarsIdle

\* save_video(video_clip, output_path, fps): write_videofile reads every
\* frame of the background clips from their files now.  It completes or
\* raises; with the files already unlinked, which of the two happens depends
\* on whether the readers still hold the files open.
SaveVideo ==
    /\ pc = "assembled"
    /\ pc' \in { "rendered", "render_failed" }
    /\ UNCHANGED stageVars
    /\ UNCHANGED << text, words_per_second, estimates, timelineRest >>

NextRender ==
    \/ PrepareSentenceData
    \/ AssembleBegin
    \/ AssembleSegment
    \/ AssembleFinish
    \/ AssembleAbort
    \/ SaveVideo

SpecRender == InitRender /\ [][NextRender]_vars

----------------------------------------------------------------------------
(* Properties of the Duration Estimator *)

WordRuns(sentence) == CountWordRuns(sentence, 1, FALSE)

\* C11: for every sentence and words_per_second the estimate is
\* max(word_count / words_per_second, 2.0): it is never below 2.0, and of two
\* sentences estimated at the same rate the one with more words never gets
\* the shorter estimate.  Checked under SpecTimeline.
C11_EstimateFloorAndMonotone ==
    \A k \in 1..Len(estimates) :
        LET spoken == RatDiv(RatInt(WordRuns(sentences[k])), words_per_second)
        IN  /\ RatLe(RatInt(MinDuration), estimates[k])
            /\ RatLe(spoken, estimates[k])
            /\ estimates[k] \in { spoken, RatInt(MinDuration) }
            /\ \A j \in 1..Len(estimates) :
                   WordRuns(sentences[j]) <= WordRuns(sentences[k])
                       => RatLe(estimates[j], estimates[k])

\* one sentence at the 2.0 floor and a longer one above it, same rate
C11_FloorAndLongerSentence ==
    \E j, k \in 1..Len(estimates) :
        /\ Len(sentences) = Len(estimates)
        /\ WordRuns(sentences[j]) < WordRuns(sentences[k])
        /\ estimates[j] = RatInt(MinDuration)
        /\ RatLt(RatDiv(RatInt(WordRuns(sentences[j])), words_per_second),
                 RatInt(MinDuration))
        /\ RatLt(RatInt(MinDuration), estimates[k])

\* the whitespace-delimited tokens that keep a character once their
\* punctuation is stripped
SpokenTokens(sentence) ==
    SelectSeq(Split(sentence),
              LAMBDA w : \E i \in 1..Len(w) : IsWordChar(w[i]))

\* C12: the estimator's word count is the number of whitespace-delimited
\* words left after stripping punctuation, so a word with an apostrophe
\* inside counts once and repeated whitespace adds no token.  Checked under
\* SpecEstimate.
C12_CountsWhitespaceWords ==
    pc = "estimated" => estimate_word_count = Len(SpokenTokens(text))

----------------------------------------------------------------------------
(* Properties of the multi-segment assembly loop, checked under SpecTimeline *)

\* C13: when the download or the preprocessing of a segment's background
\* fails, a solid-color clip of exactly that segment's duration stands in for
\* that segment only and the loop goes on; after the loop there are as many
\* background clips as segments and as caption clips.
C13_PlaceholderPerFailedSegment ==
    pc \in {"assembling", "assembled"} =>
        /\ Len(background_segments) = loop_index
        /\ Len(segment_text_clips) = loop_index
        /\ \A k \in 1..loop_index :
               /\ background_segments[k].duration = sentence_data[k].duration
               /\ background_segments[k].kind \in {"video", "color"}
        /\ loop_index > 0 =>
               background_segments[loop_index].kind =
                   (IF segment_error = "none" THEN "video" ELSE "color")
        /\ pc = "assembled" =>
               /\ Len(background_segments) = Len(sentence_data)
               /\ Len(segment_text_clips) = Len(sentence_data)

\* a finished run in which an early segment got the placeholder, a later one
\* its video, and the last segment's preprocessing failed
C13_LoopGoesOnAfterFailure ==
    /\ pc = "assembled"
    /\ segment_error = "preprocess"
    /\ \E i, j \in 1..Len(background_segments) :
          /\ i < j /\ j < Len(background_segments)
          /\ background_segments[i].kind = "color"
          /\ RatLt(RatInt(0), background_segments[i].duration)
          /\ background_segments[j].kind = "video"
          /\ background_segments[Len(background_segments)].kind = "color"

----------------------------------------------------------------------------
(* Properties of the Background Resolver, checked under SpecDownload *)

ResolverDone == pc \in {"resolved", "downloaded"}

\* the sources that a request is sent to, and those whose video arrives
Contactable(sources) == { i \in 1..Len(sources) : sources[i].kind # "unknown" }
Succeeding(sources) == { i \in Contactable(sources) : sources[i].outcome = "ok" }

\* C14: download_background_clip sends its requests in the order of the
\* source list, goes past every source that fails, returns the file of the
\* first source that succeeds without a request to any later source, and
\* raises only when every source has been tried and has failed.
C14_SourcesInOrderFirstSuccess ==
    ResolverDone =>
        LET sources  == download.sources
            requests == download.requests
            wins     == Succeeding(sources)
        IN  /\ \A a, b \in 1..Len(requests) :
                   a < b => requests[a].source <= requests[b].source
            /\ IF wins # {}
               THEN /\ download.result = "returned"
                    /\ \A i \in wins : download.source <= i
                    /\ download.source \in wins
                    /\ \A r \in 1..Len(requests) :
                           requests[r].source <= download.source
                    /\ \A i \in Contactable(sources) :
                           i <= download.source =>
                               \E r \in 1..Len(requests) : requests[r].source = i
               ELSE /\ download.result = "raised"
                    /\ \A i \in Contactable(sources) :
                           \E r \in 1..Len(requests) : requests[r].source = i

\* the first source fails, the second delivers, the third would have
\* delivered too and gets no request
C14_SecondSourceWins ==
    /\ ResolverDone
    /\ Len(download.sources) = 3
    /\ download.sources[1].outcome = "bad_status"
    /\ download.sources[3].outcome = "ok"
    /\ download.result = "returned"
    /\ download.source = 2
    /\ \E r \in 1..Len(download.requests) : download.requests[r].source = 1
    /\ \A r \in 1..Len(download.requests) : download.requests[r].source # 3

\* sub occurs in s
Contains(s, sub) ==
    \E i \in 0..(Len(s) - Len(sub)) : SubSeq(s, i + 1, i + Len(sub)) = sub

\* the local files whose name contains one of the keywords
LocalMatches ==
    { f \in local_files :
        \E k \in 1..Len(query_keywords) : Contains(f, query_keywords[k]) }

\* C15: when a file of the local backgrounds directory has a keyword in its
\* name, select_background returns such a file and sends no request to a
\* remote source.
C15_LocalMatchWins ==
    (pc = "resolved" /\ LocalMatches # {}) =>
        /\ download.requests = << >>
        /\ download.result = "returned"
        /\ download.path.origin = "local"

\* C16: the search query is never empty: it is the first three keywords at
\* most, joined, or "nature" for an empty keyword list; and the keyword list
\* extract_sentence_keywords hands over is never empty.
C16_QueryNeverEmpty ==
    /\ pc = "extracted" =>
           /\ query_keywords # << >>
           /\ \A k \in 1..Len(query_keywords) : query_keywords[k] # << >>
    /\ ResolverDone =>
           /\ download.query # << >>
           /\ query_keywords = << >> => download.query = DefaultKeyword
           /\ query_keywords # << >> =>
                  download.query =
                      JoinWith([k \in 1..Min(3, Len(query_keywords)) |->
                                   query_keywords[k]], "+")

\* a download for an empty keyword list, asked for "nature"
C16_EmptyListGetsDefault ==
    /\ ResolverDone
    /\ query_keywords = << >>
    /\ download.query = << "n", "a", "t", "u", "r", "e" >>
    /\ download.requests # << >>

\* C17: when single-background resolution ends, by a return or by an
\* exception, the temporary directory it made has been removed.
C17_TempDirRemoved ==
    pc = "resolved" => created_temp_dir # "exists"

----------------------------------------------------------------------------
(* Properties of the Fact Source, checked under SpecFact *)

\* C18: whatever the request meets (network error, bad status, a body that
\* is not JSON, a JSON string, list or object, the empty object included)
\* and whatever the AI expansion does, get_fact raises nothing and returns a
\* string.
C18_AlwaysReturnsString ==
    pc = "fetched" =>
        /\ fact_result.outcome = "returned"
        /\ fact_result.type = "str"

----------------------------------------------------------------------------
(* Properties of the single-block pipeline, checked under SpecMain *)

\* C19: in single-block mode the one caption starts at 0 and lasts exactly
\* as long as the narration audio, and so does the final clip.
C19_SegmentSpansAudio ==
    pc \in {"video_assembled", "video_saved", "reported"} =>
        /\ text_clip.start = RatInt(0)
        /\ text_clip.duration = audio_duration
        /\ final_duration = audio_duration

\* C20: whatever options the configuration lacks, all of them included, no
\* lookup of an option raises.
C20_AbsentKeysNeverRaise ==
    run_error # NoValue => run_error.exception # "KeyError"

\* the stages of main in the order of its statements, named by what has
\* been completed
StageOrder ==
    << "idle", "config_loaded", "fact_retrieved", "keywords_extracted",
       "voiceover_generated", "music_loaded", "background_selected",
       "caption_created", "video_assembled", "video_saved", "reported" >>

\* C21: the stages run in the order fact retrieval, keyword extraction,
\* narration, music loading, background resolution, caption, assembly, save,
\* each one after its predecessor has returned; a stage that fails ends the
\* run: no later stage runs, nothing is saved and no success is reported.
C21_StagesInOrder ==
    [][ /\ \E k \in 1..(Len(StageOrder) - 1) :
              /\ pc = StageOrder[k]
              /\ run_error = NoValue
              /\ \/ pc' = StageOrder[k + 1] /\ run_error' = NoValue
                 \/ pc' = "aborted" /\ run_error' # NoValue
                                     /\ pc # "video_saved"
        /\ pc' = "aborted" =>
              /\ final_duration' = final_duration
              /\ text_clip' = text_clip
       ]_vars

\* a run that the compositor ended: the narration was synthesised, the
\* caption made, and no final clip exists
C21_AssemblyFailureEndsRun ==
    /\ pc = "aborted"
    /\ run_error.stage = "assembly"
    /\ audio_duration # NoValue
    /\ text_clip # NoValue
    /\ final_duration = NoValue

----------------------------------------------------------------------------
(* Properties of assembly followed by rendering, checked under SpecRender *)

\* C22: the temporary directory that holds the downloaded background clips
\* is removed only once the final video that uses them has been rendered,
\* never before.
C22_RemovedOnlyAfterRender ==
    (/\ temp_dir = "removed"
     /\ final_duration # NoValue
     /\ \E k \in 1..Len(background_segments) :
            background_segments[k].kind = "video")
        => pc = "rendered"

----------------------------------------------------------------------------
(* Further properties of the aligner, checked under Spec *)

\* C23: for every text, the empty and the blank ones included, and every
\* list of detected ranges, the empty one included, no divisor of
\* analyze_voiceover_timing is zero: in the fallback branch there is at least
\* one chunk, and where there are more chunks than ranges in the mapped
\* branch there is at least one range and the ratio exceeds 1.
C23_DivisorsNeverZero ==
    pc = "analyzed" =>
        /\ branch = "fallback" =>
               /\ Len(chunks) >= 1
               /\ Len(segments) = Len(chunks)
        /\ (branch = "mapped" /\ Len(chunks) > Len(non_silent_ranges)) =>
               /\ Len(non_silent_ranges) >= 1
               /\ RatLt(RatInt(1), Rat(Len(chunks), Len(non_silent_ranges)))

\* one word spoken into an audio in which no range was detected
C23_OneWordNoSpeech ==
    /\ pc = "analyzed"
    /\ non_silent_ranges = << >>
    /\ Len(Split(text)) = 1
    /\ branch = "fallback"
    /\ Len(segments) = 1

\* C24: where the mapped branch has more chunks than ranges, the range
\* index of a chunk lies in 0..range count - 1, is 0 for the first chunk,
\* never decreases and grows by at most 1 from one chunk to the next; so
\* every range is given to some chunk and start times never go backwards.
C24_IndicesStepThroughRanges ==
    (pc = "analyzed" /\ branch = "mapped"
                     /\ Len(chunks) > Len(non_silent_ranges)) =>
        LET n == Len(non_silent_ranges)
            m == Len(chunks)
        IN  /\ Len(audio_indices) = m
            /\ audio_indices[1] = 0
            /\ \A k \in 1..m : audio_indices[k] \in 0..(n - 1)
            /\ \A k \in 1..(m - 1) :
                   /\ audio_indices[k] <= audio_indices[k + 1]
                   /\ audio_indices[k + 1] <= audio_indices[k] + 1
                   /\ RatLe(segments[k].start, segments[k + 1].start)
            /\ \A j \in 0..(n - 1) : \E k \in 1..m : audio_indices[k] = j

\* eighteen chunks on fourteen ranges, where the double quotient of chunk 9
\* falls below 7
C24_EighteenChunksOnFourteenRanges ==
    /\ pc = "analyzed"
    /\ branch = "mapped"
    /\ Len(chunks) = 18
    /\ Len(non_silent_ranges) = 14
    /\ audio_indices[10] = 6
    /\ audio_indices[18] = 13
====
